---- MODULE Spec2Model ----
(***************************************************************************)
(* A model of the moon engine's input, player and transform code           *)
(* (src/moon/src/input.rs, game.rs, transform.rs).                         *)
(*                                                                         *)
(* Numbers: f32 values are modelled by integers.  Player positions are     *)
(* counted in hundredths (the per-call step of handle_input is 1/100), and *)
(* transform components are small integers; rotations are counted in       *)
(* quarter turns about the z axis, where sine and cosine are integers.     *)
(* Rounding of f32 arithmetic is not modelled.                             *)
(***************************************************************************)
EXTENDS Integers, Sequences, FiniteSets, TLC

VARIABLES
    input,        \* the InputManager: keyboard_states, mouse_position
    player,       \* the Player
    call,         \* the last operation called: its name, key, label, flag, result
    last_event,   \* per key: the last key_down / key_up made for it
    consumed,     \* the keys consumed since their last key_down
    label,        \* a raw key label handed to Key::from
    key,          \* Key::from(label), once computed
    transform,    \* a Transform (3D)
    matrix_ret,   \* what Transform::matrix() returned last
    sprite_ret,   \* what Player::get_sprite() did last
    lhs,          \* Transform2D operands of +
    rhs,
    sum           \* lhs + rhs, once computed

vars == <<input, player, sprite_ret, call, last_event, consumed, label, key,
          transform, matrix_ret, lhs, rhs, sum>>

inputVars == <<input, last_event, consumed>>
playerVars == <<player, sprite_ret>>
keyVars == <<label, key>>
transformVars == <<transform, matrix_ret>>
transform2DVars == <<lhs, rhs, sum>>

(***************************************************************************)
(* Bounds and input sets                                                   *)
(***************************************************************************)
\* |position.x| of the player, in hundredths, stays within MaxX.
MaxX == 2
\* delta_time values handed to Player::update are 0..MaxDelta.
MaxDelta == 1
\* Labels of every length up to MaxLabelLen over LabelChars are canonicalized.
MaxLabelLen == 2
\* Transform positions and scales have components in 0..MaxCoord.
MaxCoord == 1

(***************************************************************************)
(* input.rs: Key                                                           *)
(***************************************************************************)
UpperCase == <<"A", "B", "C", "D", "E", "F", "G", "H", "I", "J", "K", "L", "M",
               "N", "O", "P", "Q", "R", "S", "T", "U", "V", "W", "X", "Y", "Z">>
LowerCase == <<"a", "b", "c", "d", "e", "f", "g", "h", "i", "j", "k", "l", "m",
               "n", "o", "p", "q", "r", "s", "t", "u", "v", "w", "x", "y", "z">>
Digits == <<"0", "1", "2", "3", "4", "5", "6", "7", "8", "9">>

Range(s) == {s[i] : i \in DOMAIN s}

\* enum Key: Space, A..Z, Num0..Num9, Unknown.
Key ==
    {"Space"} \cup Range(UpperCase)
              \cup {"Num0", "Num1", "Num2", "Num3", "Num4",
                    "Num5", "Num6", "Num7", "Num8", "Num9"}
              \cup {"Unknown"}

\* The arms of the match in Key::from, in order; a label is a sequence of
\* characters.  The last arm, _ => Key::Unknown, is in From.
MatchArms == <<
    [patterns |-> {<<"S", "p", "a", "c", "e">>}, key |-> "Space"],
    [patterns |-> {<<"a">>, <<"A">>}, key |-> "A"],
    [patterns |-> {<<"b">>, <<"B">>}, key |-> "B"],
    [patterns |-> {<<"c">>, <<"C">>}, key |-> "C"],
    [patterns |-> {<<"d">>, <<"D">>}, key |-> "D"],
    [patterns |-> {<<"e">>, <<"E">>}, key |-> "E"],
    [patterns |-> {<<"f">>, <<"F">>}, key |-> "F"],
    [patterns |-> {<<"g">>, <<"G">>}, key |-> "G"],
    [patterns |-> {<<"h">>, <<"H">>}, key |-> "H"],
    [patterns |-> {<<"i">>, <<"I">>}, key |-> "I"],
    [patterns |-> {<<"j">>, <<"J">>}, key |-> "J"],
    [patterns |-> {<<"k">>, <<"K">>}, key |-> "K"],
    [patterns |-> {<<"l">>, <<"L">>}, key |-> "L"],
    [patterns |-> {<<"m">>, <<"M">>}, key |-> "M"],
    [patterns |-> {<<"n">>, <<"N">>}, key |-> "N"],
    [patterns |-> {<<"o">>, <<"O">>}, key |-> "O"],
    [patterns |-> {<<"p">>, <<"P">>}, key |-> "P"],
    [patterns |-> {<<"q">>, <<"Q">>}, key |-> "Q"],
    [patterns |-> {<<"r">>, <<"R">>}, key |-> "R"],
    [patterns |-> {<<"s">>, <<"S">>}, key |-> "S"],
    [patterns |-> {<<"t">>, <<"T">>}, key |-> "T"],
    [patterns |-> {<<"u">>, <<"U">>}, key |-> "U"],
    [patterns |-> {<<"v">>, <<"V">>}, key |-> "V"],
    [patterns |-> {<<"w">>, <<"W">>}, key |-> "W"],
    [patterns |-> {<<"x">>, <<"X">>}, key |-> "X"],
    [patterns |-> {<<"y">>, <<"Y">>}, key |-> "Y"],
    [patterns |-> {<<"z">>, <<"Z">>}, key |-> "Z"],
    [patterns |-> {<<"0">>}, key |-> "Num0"],
    [patterns |-> {<<"1">>}, key |-> "Num1"],
    [patterns |-> {<<"2">>}, key |-> "Num2"],
    [patterns |-> {<<"3">>}, key |-> "Num3"],
    [patterns |-> {<<"4">>}, key |-> "Num4"],
    [patterns |-> {<<"5">>}, key |-> "Num5"],
    [patterns |-> {<<"7">>}, key |-> "Num7"],
    [patterns |-> {<<"8">>}, key |-> "Num8"],
    [patterns |-> {<<"9">>}, key |-> "Num9"] >>

\* A slip: the match looks at the first character of the label only.
FromFirstChar(raw) ==
    LET hits == {i \in DOMAIN MatchArms :
                    /\ raw # <<>>
                    /\ \E p \in MatchArms[i].patterns : p[1] = raw[1]}
    IN  IF hits = {} THEN "Unknown"
        ELSE MatchArms[CHOOSE i \in hits : \A j \in hits : i <= j].key

\* impl From<&str> for Key: the first arm with a pattern equal to the whole
\* label decides; without one the label is Key::Unknown.
From(raw) ==
    LET hits == {i \in DOMAIN MatchArms : raw \in MatchArms[i].patterns}
    IN  IF hits = {} THEN "Unknown"
        ELSE MatchArms[CHOOSE i \in hits : \A j \in hits : i <= j].key

(***************************************************************************)
(* input.rs: InputManager                                                  *)
(***************************************************************************)
\* The keys and labels the platform layer sends in this model.
InputKeys == {"A", "D", "Unknown"}
InputLabels == {<<"d">>, <<"D">>, <<"6">>, <<>>, <<"F", "1">>}
MouseCoords == {0, 1}

NoKey == "-"
NoLabel == <<"-">>

Called(op, k, l, d, r) ==
    [op |-> op, key |-> k, label |-> l, is_down |-> d, ret |-> r]

\* InputManager::new(): Default::default().
InputManagerNew == [keyboard_states |-> {}, mouse_position |-> <<0, 0>>]

\* The variables the InputManager's operations leave alone.
notInput == <<player, sprite_ret, label, key, transform, matrix_ret, lhs, rhs, sum>>

\* A slip: key_down leaves the set as it is when another key is already held.
KeyDownSingle(inp, k) ==
    [inp EXCEPT !.keyboard_states = IF @ = {} THEN {k} ELSE @]

\* InputManager::key_down: keyboard_states.insert(key).
KeyDown(inp, k) == [inp EXCEPT !.keyboard_states = @ \cup {k}]

\* A slip: key_up toggles the key, pressing one that was not held.
KeyUpToggles(inp, k) ==
    [inp EXCEPT !.keyboard_states = IF k \in @ THEN @ \ {k} ELSE @ \cup {k}]

\* InputManager::key_up: keyboard_states.remove(&key).
KeyUp(inp, k) == [inp EXCEPT !.keyboard_states = @ \ {k}]

\* A slip: a label that canonicalizes to Unknown is dropped instead of
\* pressing or releasing the Unknown key.
SetKeyStateSkipsUnknown(inp, l, is_down) ==
    IF From(l) = "Unknown" THEN inp
    ELSE IF is_down THEN [inp EXCEPT !.keyboard_states = @ \cup {From(l)}]
    ELSE [inp EXCEPT !.keyboard_states = @ \ {From(l)}]

\* InputManager::set_key_state.
SetKeyState(inp, l, is_down) ==
    IF is_down THEN KeyDown(inp, From(l)) ELSE KeyUp(inp, From(l))

\* InputManager::get_key_state: keyboard_states.contains(&key).
GetKeyState(inp, k) == k \in inp.keyboard_states

\* A slip: the key is queried and left in the set.
ConsumeKeyStateKeeps(inp, k) ==
    [input |-> inp, ret |-> k \in inp.keyboard_states]

\* InputManager::consume_key_state: keyboard_states.remove(&key), which
\* returns whether the key was in the set.
ConsumeKeyState(inp, k) ==
    [input |-> [inp EXCEPT !.keyboard_states = @ \ {k}],
     ret |-> k \in inp.keyboard_states]

\* InputManager::set_mouse_position.
SetMousePosition(inp, x, y) == [inp EXCEPT !.mouse_position = <<x, y>>]

\* The record of events: the last key_down or key_up made for k, directly or
\* by set_key_state, and the keys consumed since their last key_down.
Event(k, what) ==
    /\ last_event' = [last_event EXCEPT ![k] = what]
    /\ consumed' = IF what = "down" THEN consumed \ {k} ELSE consumed

key_down(k) ==
    /\ input' = KeyDown(input, k)
    /\ Event(k, "down")
    /\ call' = Called("key_down", k, NoLabel, TRUE, FALSE)
    /\ UNCHANGED notInput

key_up(k) ==
    /\ input' = KeyUp(input, k)
    /\ Event(k, "up")
    /\ call' = Called("key_up", k, NoLabel, FALSE, FALSE)
    /\ UNCHANGED notInput

set_key_state(l, is_down) ==
    /\ input' = SetKeyState(input, l, is_down)
    /\ Event(From(l), IF is_down THEN "down" ELSE "up")
    /\ call' = Called("set_key_state", From(l), l, is_down, FALSE)
    /\ UNCHANGED notInput

get_key_state(k) ==
    /\ call' = Called("get_key_state", k, NoLabel, FALSE, GetKeyState(input, k))
    /\ UNCHANGED <<inputVars, notInput>>

consume_key_state(k) ==
    /\ input' = ConsumeKeyState(input, k).input
    /\ call' = Called("consume_key_state", k, NoLabel, FALSE,
                      ConsumeKeyState(input, k).ret)
    /\ consumed' = consumed \cup {k}
    /\ UNCHANGED <<last_event, notInput>>

set_mouse_position(x, y) ==
    /\ input' = SetMousePosition(input, x, y)
    /\ call' = Called("set_mouse_position", NoKey, NoLabel, FALSE, FALSE)
    /\ UNCHANGED <<last_event, consumed, notInput>>

(***************************************************************************)
(* game.rs: Player                                                         *)
(***************************************************************************)
PlayerState == {"Idle", "IdleLeft", "Jumping", "JumpingLeft"}

\* A SubTexture is modelled by its uv rectangle, a Color32 of four fractions
\* <<numerator, denominator>>.
IdleSprite == << <<1, 100>>, <<1, 10>>, <<1, 6>>, <<2, 6>> >>
IdleLeftSprite == << <<1, 10>>, <<1, 100>>, <<1, 6>>, <<2, 6>> >>

\* The sprites map built by Player::default(): Idle and IdleLeft only.
DefaultSprites == ("Idle" :> IdleSprite) @@ ("IdleLeft" :> IdleLeftSprite)

\* impl Default for Player.  Positions and velocities are in hundredths.
PlayerDefault ==
    [state |-> "Idle",
     position |-> <<0, 0>>,
     is_backward |-> FALSE,
     is_jumping |-> FALSE,
     sprites |-> DefaultSprites,
     velocity |-> <<0, 0>>,
     is_grounded |-> FALSE]

\* A slip: the two flags are tested in each other's place.
CalculateStateSwapped(p) ==
    [p EXCEPT !.state =
        IF p.is_backward
        THEN IF p.is_jumping THEN "JumpingLeft" ELSE "Jumping"
        ELSE IF p.is_jumping THEN "IdleLeft" ELSE "Idle"]

\* The variables the Player's operations leave alone.
notPlayer == <<label, key, transform, matrix_ret, lhs, rhs, sum>>

\* Player::calculate_state.
CalculateState(p) ==
    [p EXCEPT !.state =
        IF p.is_jumping
        THEN IF p.is_backward THEN "JumpingLeft" ELSE "Jumping"
        ELSE IF p.is_backward THEN "IdleLeft" ELSE "Idle"]

\* bool as i32.
AsI32(b) == IF b THEN 1 ELSE 0

\* A slip: A and D are exchanged.
HorizontalMovementSwapped(inp) ==
    AsI32(GetKeyState(inp, "A")) - AsI32(GetKeyState(inp, "D"))

\* handle_input's horizontal_movement.
HorizontalMovement(inp) ==
    AsI32(GetKeyState(inp, "D")) - AsI32(GetKeyState(inp, "A"))

Abs(n) == IF n < 0 THEN -n ELSE n

\* A slip: handle_input also turns the player, setting is_backward when the
\* movement is to the left.
HandleInputTurns ==
    LET h == AsI32(GetKeyState(input, "D")) - AsI32(GetKeyState(input, "A"))
        moved == [player EXCEPT !.position[1] = @ + h,
                                !.is_backward = IF h = 0 THEN @ ELSE h < 0]
    IN  /\ Abs(moved.position[1]) <= MaxX
        /\ player' = [moved EXCEPT !.state =
                        IF moved.is_jumping
                        THEN IF moved.is_backward THEN "JumpingLeft" ELSE "Jumping"
                        ELSE IF moved.is_backward THEN "IdleLeft" ELSE "Idle"]
        /\ call' = [op |-> "handle_input", key |-> "-", label |-> <<"-">>,
                    is_down |-> FALSE, ret |-> FALSE]
        /\ UNCHANGED <<input, last_event, consumed, sprite_ret,
                       label, key, transform, matrix_ret, lhs, rhs, sum>>

\* Player::handle_input: position.x += horizontal_movement / 100, then
\* calculate_state.  The guard keeps position.x within the model's bound.
handle_input ==
    LET moved == [player EXCEPT !.position[1] = @ + HorizontalMovement(input)]
    IN  /\ Abs(moved.position[1]) <= MaxX
        /\ player' = CalculateState(moved)
        /\ call' = Called("handle_input", NoKey, NoLabel, FALSE, FALSE)
        /\ UNCHANGED <<inputVars, sprite_ret, notPlayer>>

\* Player::update: position += velocity * delta_time.
update(delta_time) ==
    /\ player' = [player EXCEPT
                    !.position = <<@[1] + player.velocity[1] * delta_time,
                                   @[2] + player.velocity[2] * delta_time>>]
    /\ call' = Called("update", NoKey, NoLabel, FALSE, FALSE)
    /\ UNCHANGED <<inputVars, sprite_ret, notPlayer>>

\* Option values: None and Some(v).
None == <<>>
Some(v) == <<v>>
\* BTreeMap::get.
MapGet(m, k) == IF k \in DOMAIN m THEN Some(m[k]) ELSE None

\* What a call of get_sprite does: it returns a region or it panics.
Panicked == [panicked |-> TRUE, region |-> <<>>]
Returned(r) == [panicked |-> FALSE, region |-> r]
NotCalled == [panicked |-> FALSE, region |-> <<>>]

\* A slip: the lookup of the current state is unwrapped, without a default.
GetSpriteNoDefault(p) ==
    LET found == MapGet(p.sprites, p.state)
    IN  IF found = None THEN Panicked ELSE Returned(found[1])

\* Player::get_sprite: sprites.get(&state).unwrap_or(sprites.get(&Idle).unwrap()).
\* The argument of unwrap_or is evaluated before unwrap_or is called, so a
\* map without an Idle entry panics whatever the state is.
GetSprite(p) ==
    LET found == MapGet(p.sprites, p.state)
        default == MapGet(p.sprites, "Idle")
    IN  IF default = None THEN Panicked
        ELSE IF found = None THEN Returned(default[1])
        ELSE Returned(found[1])

get_sprite ==
    /\ sprite_ret' = GetSprite(player)
    /\ call' = Called("get_sprite", NoKey, NoLabel, FALSE, FALSE)
    /\ UNCHANGED <<inputVars, player, notPlayer>>

(***************************************************************************)
(* transform.rs: Transform                                                 *)
(***************************************************************************)
\* A Mat4 is a tuple of four rows of four entries; a Vec3 a triple.
MatIdentity ==
    << <<1, 0, 0, 0>>, <<0, 1, 0, 0>>, <<0, 0, 1, 0>>, <<0, 0, 0, 1>> >>

MatMul(a, b) ==
    [i \in 1..4 |->
        [j \in 1..4 |->
            a[i][1] * b[1][j] + a[i][2] * b[2][j] + a[i][3] * b[3][j] + a[i][4] * b[4][j]]]

\* Mat4::new_translation.
NewTranslation(v) ==
    << <<1, 0, 0, v[1]>>, <<0, 1, 0, v[2]>>, <<0, 0, 1, v[3]>>, <<0, 0, 0, 1>> >>

\* Mat4::new_nonuniform_scaling.
NewNonuniformScaling(v) ==
    << <<v[1], 0, 0, 0>>, <<0, v[2], 0, 0>>, <<0, 0, v[3], 0>>, <<0, 0, 0, 1>> >>

\* Cosine and sine of q quarter turns.
Cos(q) == <<1, 0, -1, 0>>[(q % 4) + 1]
Sin(q) == <<0, 1, 0, -1>>[(q % 4) + 1]

\* Mat4::new_rotation of an axis-angle vector along z, the only kind
\* set_rotation produces: a rotation by axisangle.z about the z axis.
NewRotation(axisangle) ==
    << <<Cos(axisangle[3]), -Sin(axisangle[3]), 0, 0>>,
       <<Sin(axisangle[3]), Cos(axisangle[3]), 0, 0>>,
       <<0, 0, 1, 0>>,
       <<0, 0, 0, 1>> >>

\* impl Default for Transform.
TransformDefault ==
    [matrix |-> MatIdentity,
     position |-> <<0, 0, 0>>,
     rotation |-> <<0, 0, 0>>,
     scale |-> <<1, 1, 1>>]

\* Transform::new.
TransformNew == TransformDefault

\* Transform::new_with_position.
NewWithPosition(p) ==
    [TransformDefault EXCEPT !.position = p, !.matrix = NewTranslation(p)]

\* Transform::recalculate_matrix.
RecalculateMatrix(t) ==
    [t EXCEPT !.matrix =
        MatMul(MatMul(NewTranslation(t.position), NewRotation(t.rotation)),
               NewNonuniformScaling(t.scale))]

\* Transform::set_position, set_rotation (Vec3::z() * rotation), set_scale.
SetPosition(t, p) == RecalculateMatrix([t EXCEPT !.position = p])
SetRotation(t, r) == RecalculateMatrix([t EXCEPT !.rotation = <<0 * r, 0 * r, 1 * r>>])
\* A slip: set_scale stores the scale and leaves the cached matrix stale.
SetScaleStale(t, sc) == [t EXCEPT !.scale = sc]
SetScale(t, sc) == RecalculateMatrix([t EXCEPT !.scale = sc])

\* The inputs of the setters.
Coords == 0..MaxCoord
Vec3s == Coords \X Coords \X Coords
QuarterTurns == -1..2

NoMatrix == <<>>
notTransform ==
    <<input, last_event, consumed, player, sprite_ret, label, key, lhs, rhs, sum>>

set_position(p) ==
    /\ transform' = SetPosition(transform, p)
    /\ matrix_ret' = NoMatrix
    /\ call' = Called("set_position", NoKey, NoLabel, FALSE, FALSE)
    /\ UNCHANGED notTransform

set_rotation(r) ==
    /\ transform' = SetRotation(transform, r)
    /\ matrix_ret' = NoMatrix
    /\ call' = Called("set_rotation", NoKey, NoLabel, FALSE, FALSE)
    /\ UNCHANGED notTransform

set_scale(sc) ==
    /\ transform' = SetScale(transform, sc)
    /\ matrix_ret' = NoMatrix
    /\ call' = Called("set_scale", NoKey, NoLabel, FALSE, FALSE)
    /\ UNCHANGED notTransform

\* Transform::matrix: a copy of the cached matrix.
matrix ==
    /\ matrix_ret' = transform.matrix
    /\ call' = Called("matrix", NoKey, NoLabel, FALSE, FALSE)
    /\ UNCHANGED <<transform, notTransform>>

(***************************************************************************)
(* transform.rs: Transform2D                                               *)
(***************************************************************************)
\* impl Default for Transform2D.
Transform2DDefault == [position |-> <<0, 0>>, rotation |-> 0, scale |-> <<1, 1>>]

\* A slip: the remaining field is taken from the left operand (..self).
AddKeepsSelf(a, b) ==
    [position |-> <<a.position[1] + b.position[1], a.position[2] + b.position[2]>>,
     rotation |-> a.rotation + b.rotation,
     scale |-> a.scale]

\* impl Add for Transform2D: position and rotation are summed, the other
\* field comes from rhs (..rhs).
Add(a, b) ==
    [b EXCEPT
        !.position = <<a.position[1] + b.position[1], a.position[2] + b.position[2]>>,
        !.rotation = a.rotation + b.rotation]

\* The Transform2D values added in this model; the fields are public.
Vec2s == Coords \X Coords
Transform2Ds == [position : Vec2s, rotation : Coords, scale : Vec2s]

add ==
    /\ sum = None
    /\ sum' = Some(Add(lhs, rhs))
    /\ call' = Called("add", NoKey, NoLabel, FALSE, FALSE)
    /\ UNCHANGED <<lhs, rhs, input, last_event, consumed, player, sprite_ret,
                   label, key, transform, matrix_ret>>

(***************************************************************************)
(* Initial states, inputs and specifications                               *)
(***************************************************************************)
InputInit ==
    /\ input = InputManagerNew
    /\ last_event = [k \in Key |-> "none"]
    /\ consumed = {}

PlayerInit ==
    /\ player = PlayerDefault
    /\ sprite_ret = NotCalled

KeyInit ==
    /\ label = <<>>
    /\ key = NoKey

TransformInit ==
    /\ transform = TransformNew
    /\ matrix_ret = NoMatrix

Transform2DInit ==
    /\ lhs = Transform2DDefault
    /\ rhs = Transform2DDefault
    /\ sum = None

Constructed == call = Called("new", NoKey, NoLabel, FALSE, FALSE)

\* The InputManager after InputManager::new(), driven by the platform layer.
Init ==
    /\ InputInit /\ PlayerInit /\ KeyInit /\ TransformInit /\ Transform2DInit
    /\ Constructed

Next ==
    \/ \E k \in InputKeys : key_down(k)
    \/ \E k \in InputKeys : key_up(k)
    \/ \E l \in InputLabels, is_down \in BOOLEAN : set_key_state(l, is_down)
    \/ \E k \in InputKeys : get_key_state(k)
    \/ \E k \in InputKeys : consume_key_state(k)
    \/ \E x \in MouseCoords, y \in MouseCoords : set_mouse_position(x, y)

Spec == Init /\ [][Next]_vars

\* The Player after Player::default(), with an InputManager whose keys
\* A, D and Space go down and up.
GameKeys == {"A", "D", "Space"}

NextGame ==
    \/ \E k \in GameKeys : key_down(k)
    \/ \E k \in GameKeys : key_up(k)
    \/ handle_input
    \/ \E delta_time \in 0..MaxDelta : update(delta_time)
    \/ get_sprite

SpecGame == Init /\ [][NextGame]_vars

\* Players of every flag combination and of every sprite map that binds
\* Idle: calculate_state and get_sprite over all their inputs.  The flags
\* and the map are set where the Player is built and by no operation.
JumpingSprite == << <<2, 6>>, <<1, 10>>, <<1, 6>>, <<2, 6>> >>
JumpingLeftSprite == << <<3, 6>>, <<1, 10>>, <<1, 6>>, <<2, 6>> >>
AllSprites ==
    DefaultSprites @@ ("Jumping" :> JumpingSprite) @@ ("JumpingLeft" :> JumpingLeftSprite)
SpriteMaps ==
    {[s \in d |-> AllSprites[s]] : d \in {d \in SUBSET PlayerState : "Idle" \in d}}

InitPlayer ==
    /\ InputInit /\ KeyInit /\ TransformInit /\ Transform2DInit /\ Constructed
    /\ sprite_ret = NotCalled
    /\ \E j \in BOOLEAN, b \in BOOLEAN, m \in SpriteMaps :
          player = [PlayerDefault EXCEPT !.is_jumping = j, !.is_backward = b,
                                         !.sprites = m]

SpecPlayer == InitPlayer /\ [][NextGame]_vars

\* Key::from over the labels of length up to MaxLabelLen and some longer ones.
LabelChars == Range(UpperCase) \cup Range(LowerCase) \cup Range(Digits) \cup {" ", "?"}
SpaceSpellings ==
    {l \in [1..5 -> {"S", "s", "P", "p", "A", "a", "C", "c", "E", "e"}] :
        /\ l[1] \in {"S", "s"} /\ l[2] \in {"P", "p"} /\ l[3] \in {"A", "a"}
        /\ l[4] \in {"C", "c"} /\ l[5] \in {"E", "e"}}
LongLabels ==
    SpaceSpellings \cup
    {<<"S", "p", "a", "c">>, <<"S", "p", "a", "c", "e", " ">>, <<" ", "S", "p", "a", "c", "e">>,
     <<"E", "n", "t", "e", "r">>, <<"N", "u", "m", "6">>, <<"U", "n", "k", "n", "o", "w", "n">>}
Labels == UNION {[1..n -> LabelChars] : n \in 0..MaxLabelLen} \cup LongLabels

from ==
    /\ key = NoKey
    /\ key' = From(label)
    /\ call' = Called("from", From(label), label, FALSE, FALSE)
    /\ UNCHANGED <<label, inputVars, playerVars, transformVars, transform2DVars>>

InitKey ==
    /\ InputInit /\ PlayerInit /\ TransformInit /\ Transform2DInit /\ Constructed
    /\ label \in Labels
    /\ key = NoKey

NextKey == from

SpecKey == InitKey /\ [][NextKey]_vars

\* A Transform built by new() or new_with_position(p) and changed by its setters.
InitTransform ==
    /\ InputInit /\ PlayerInit /\ KeyInit /\ Transform2DInit /\ Constructed
    /\ transform \in {TransformNew} \cup {NewWithPosition(p) : p \in Vec3s}
    /\ matrix_ret = NoMatrix

NextTransform ==
    \/ \E p \in Vec3s : set_position(p)
    \/ \E r \in QuarterTurns : set_rotation(r)
    \/ \E sc \in Vec3s : set_scale(sc)
    \/ matrix

SpecTransform == InitTransform /\ [][NextTransform]_vars

\* a + b over pairs of Transform2D values.
InitTransform2D ==
    /\ InputInit /\ PlayerInit /\ KeyInit /\ TransformInit /\ Constructed
    /\ lhs \in Transform2Ds
    /\ rhs \in Transform2Ds
    /\ sum = None

NextTransform2D == add

SpecTransform2D == InitTransform2D /\ [][NextTransform2D]_vars

(***************************************************************************)
(* Properties: InputManager (under Spec)                                   *)
(***************************************************************************)
Pressed(k) == k \in input.keyboard_states

\* C1, as stated: after any sequence of InputManager operations, a key is
\* in the pressed set iff the most recent down/up event for it was a down.
C1_PressedIffLastEventDown ==
    \A k \in Key : Pressed(k) <=> last_event[k] = "down"

\* C1, amended: a key is in the pressed set iff the most recent down/up
\* event for it was a down and consume_key_state has not been called for it
\* since that down.
C1_PressedIffDownAndNotConsumed ==
    \A k \in Key : Pressed(k) <=> (last_event[k] = "down" /\ k \notin consumed)

\* Two keys went down, one of them was consumed and the other is still held.
C1_Witness ==
    \E k1 \in Key, k2 \in Key :
        /\ last_event[k1] = "down" /\ k1 \in consumed /\ ~Pressed(k1)
        /\ last_event[k2] = "down" /\ k2 \notin consumed /\ Pressed(k2)

\* C4: right after key_down(k) the key is pressed and right after key_up(k)
\* it is not, whatever the state before; a key_down(k) on a pressed key, a
\* key_down(k) repeated, a key_up(k) on an absent key and a key_up(k)
\* repeated leave the InputManager as it is.
C4_KeyDownUpIdempotent ==
    [][/\ call'.op = "key_down" =>
            /\ GetKeyState(input', call'.key)
            /\ Pressed(call'.key) => input' = input
            /\ (call.op = "key_down" /\ call.key = call'.key) => input' = input
       /\ call'.op = "key_up" =>
            /\ ~GetKeyState(input', call'.key)
            /\ ~Pressed(call'.key) => input' = input
            /\ (call.op = "key_up" /\ call.key = call'.key) => input' = input]_vars

\* key_up was called for a key while a second key is held and a third is released.
C4_Witness ==
    /\ call.op = "key_up"
    /\ last_event[call.key] = "up"
    /\ \E k \in Key : k # call.key /\ Pressed(k) /\ last_event[k] = "down"
    /\ \E k \in Key : k # call.key /\ ~Pressed(k) /\ last_event[k] = "up"

\* C5: consume_key_state(k) returns what get_key_state(k) was before the
\* call and leaves k not pressed; a consume_key_state(k) with no key_down(k)
\* since an earlier one returns false.
C5_ConsumeReadsOnce ==
    [][call'.op = "consume_key_state" =>
            /\ call'.ret = GetKeyState(input, call'.key)
            /\ ~GetKeyState(input', call'.key)
            /\ call'.key \in consumed => call'.ret = FALSE]_vars

\* A key went down, was consumed, and a second consume returned false.
C5_Witness ==
    /\ call.op = "consume_key_state"
    /\ call.ret = FALSE
    /\ last_event[call.key] = "down"
    /\ call.key \in consumed

(***************************************************************************)
(* Properties: Key::from (under SpecKey)                                   *)
(***************************************************************************)
\* The spec's rule: a label is recognized when it is one letter, one digit
\* or a spelling of Space in any case; OwnKey is the key it names.
ToLower(c) ==
    IF \E i \in DOMAIN UpperCase : UpperCase[i] = c
    THEN LowerCase[CHOOSE i \in DOMAIN UpperCase : UpperCase[i] = c]
    ELSE c
Fold(l) == [i \in DOMAIN l |-> ToLower(l[i])]
IsLetter(l) == Len(l) = 1 /\ Fold(l)[1] \in Range(LowerCase)
IsDigit(l) == Len(l) = 1 /\ l[1] \in Range(Digits)
IsSpace(l) == Fold(l) = <<"s", "p", "a", "c", "e">>
Recognized(l) == IsLetter(l) \/ IsDigit(l) \/ IsSpace(l)
NumKeys == <<"Num0", "Num1", "Num2", "Num3", "Num4",
             "Num5", "Num6", "Num7", "Num8", "Num9">>
OwnKey(l) ==
    IF IsSpace(l) THEN "Space"
    ELSE IF IsLetter(l)
    THEN UpperCase[CHOOSE i \in DOMAIN LowerCase : LowerCase[i] = Fold(l)[1]]
    ELSE NumKeys[CHOOSE i \in DOMAIN Digits : Digits[i] = l[1]]
Canonicalized == key # NoKey

\* C2, as stated: every recognized label (a letter in either case, a digit,
\* Space in any case) canonicalizes to its own key, never to Unknown, and
\* two different letters or digits never canonicalize to the same key.
C2_RecognizedLabelsMapToOwnKey ==
    (Canonicalized /\ Recognized(label)) =>
        /\ key = OwnKey(label)
        /\ key # "Unknown"
        /\ \A c \in LabelChars :
              (Recognized(<<c>>) /\ Len(label) = 1 /\ ToLower(c) # ToLower(label[1]))
                  => From(<<c>>) # key

\* C3: every label that is no letter, no digit and no spelling of Space,
\* the empty and the multi-character ones included, canonicalizes to Unknown.
C3_UnrecognizedLabelsMapToUnknown ==
    (Canonicalized /\ ~Recognized(label)) => key = "Unknown"

\* A label of several characters that starts with a letter became Unknown.
C3_Witness ==
    /\ Canonicalized
    /\ Len(label) > 1
    /\ IsLetter(<<label[1]>>)
    /\ ~Recognized(label)
    /\ key = "Unknown"

(***************************************************************************)
(* Properties: Player (under SpecPlayer and SpecGame)                      *)
(***************************************************************************)
\* The state each pair of flags stands for.
StateOfFlags(is_jumping, is_backward) ==
    CASE ~is_jumping /\ ~is_backward -> "Idle"
      [] is_jumping /\ ~is_backward -> "Jumping"
      [] ~is_jumping /\ is_backward -> "IdleLeft"
      [] is_jumping /\ is_backward -> "JumpingLeft"
StateMatchesFlags(p) == p.state = StateOfFlags(p.is_jumping, p.is_backward)

\* C6: right after handle_input the state is the one its flags stand for,
\* for each of the four flag pairs; Player::default() has the state of its
\* flags, and no operation takes a player whose state matches its flags to
\* one whose state does not.
C6_StateIsFunctionOfFlags ==
    [][/\ call'.op = "handle_input" => StateMatchesFlags(player')
       /\ StateMatchesFlags(PlayerDefault)
       /\ StateMatchesFlags(player) => StateMatchesFlags(player')]_vars

\* handle_input has recomputed the state of a player with both flags set.
C6_Witness ==
    /\ call.op = "handle_input"
    /\ player.is_jumping /\ player.is_backward
    /\ player.state = "JumpingLeft"

\* C7: get_sprite does not panic in any of the four states; it returns the
\* region bound to the current state when there is one and the Idle region
\* otherwise, also when Idle is the only binding.
C7_GetSpriteFallsBackToIdle ==
    call.op = "get_sprite" =>
        /\ ~sprite_ret.panicked
        /\ sprite_ret.region =
              IF player.state \in DOMAIN player.sprites
              THEN player.sprites[player.state]
              ELSE player.sprites["Idle"]

\* get_sprite returned the Idle region for a jumping player whose map binds
\* Idle and IdleLeft only.
C7_Witness ==
    /\ call.op = "get_sprite"
    /\ player.state = "Jumping"
    /\ DOMAIN player.sprites = {"Idle", "IdleLeft"}
    /\ sprite_ret = Returned(IdleSprite)

\* C8: a call of handle_input changes position.x by (D pressed ? 1 : 0) -
\* (A pressed ? 1 : 0) hundredths and leaves position.y, the velocity and
\* the InputManager's pressed set as they are.
C8_HandleInputMovesByAxis ==
    [][call'.op = "handle_input" =>
            /\ player'.position[1] - player.position[1] =
                  (IF Pressed("D") THEN 1 ELSE 0) - (IF Pressed("A") THEN 1 ELSE 0)
            /\ player'.position[2] = player.position[2]
            /\ player'.velocity = player.velocity
            /\ input'.keyboard_states = input.keyboard_states]_vars

\* handle_input ran with D alone held and the player is right of the origin.
C8_Witness ==
    /\ call.op = "handle_input"
    /\ Pressed("D") /\ ~Pressed("A")
    /\ player.position[1] > 0

(***************************************************************************)
(* Properties: Transform (under SpecTransform)                             *)
(***************************************************************************)
\* translation(position) * rotation_matrix(rotation) * nonuniform_scale(scale).
Composed(t) ==
    MatMul(MatMul(NewTranslation(t.position), NewRotation(t.rotation)),
           NewNonuniformScaling(t.scale))

\* C9: from new() or new_with_position(p) on and after every setter, the
\* cached matrix, which matrix() returns, is the product of the current
\* position, rotation and scale; matrix() changes no field.
C9_MatrixIsCurrent ==
    /\ [](/\ transform.matrix = Composed(transform)
          /\ call.op = "matrix" => matrix_ret = Composed(transform))
    /\ [][call'.op = "matrix" => transform' = transform]_vars

\* matrix() was read off a transform that is moved, turned and scaled.
C9_Witness ==
    /\ call.op = "matrix"
    /\ transform.position = <<1, 0, 1>>
    /\ transform.rotation = <<0, 0, 1>>
    /\ transform.scale = <<0, 1, 1>>
    /\ matrix_ret = transform.matrix

(***************************************************************************)
(* Properties: Transform2D (under SpecTransform2D)                         *)
(***************************************************************************)
\* C10: a + b has position a.position + b.position, rotation a.rotation +
\* b.rotation and scale b.scale; when the scales differ, a + b has b's
\* scale and b + a has a's, while their positions and rotations agree.
C10_AddTakesRightScale ==
    sum # None =>
        /\ sum[1].position = <<lhs.position[1] + rhs.position[1],
                               lhs.position[2] + rhs.position[2]>>
        /\ sum[1].rotation = lhs.rotation + rhs.rotation
        /\ sum[1].scale = rhs.scale
        /\ lhs.scale # rhs.scale =>
              /\ Add(rhs, lhs).scale = lhs.scale
              /\ Add(rhs, lhs) # sum[1]
              /\ Add(rhs, lhs).position = sum[1].position
              /\ Add(rhs, lhs).rotation = sum[1].rotation

\* Two transforms of different scales and positions were added.
C10_Witness ==
    /\ sum # None
    /\ lhs.scale # rhs.scale
    /\ lhs.position # rhs.position
    /\ lhs.rotation # rhs.rotation

(***************************************************************************)
(* Properties: set_key_state (under Spec)                                  *)
(***************************************************************************)
\* C11: set_key_state(label, is_down) leaves the InputManager as
\* key_down(Key::from(label)) does when is_down, and as
\* key_up(Key::from(label)) does otherwise; an unrecognized label presses or
\* releases the Unknown key, so that Unknown, pressed through one
\* unrecognized label, is released through any unrecognized label.
C11_SetKeyStateIsKeyDownOrUp ==
    [][call'.op = "set_key_state" =>
            /\ call'.key = From(call'.label)
            /\ input' = IF call'.is_down
                        THEN KeyDown(input, From(call'.label))
                        ELSE KeyUp(input, From(call'.label))
            /\ ~Recognized(call'.label) =>
                  /\ call'.key = "Unknown"
                  /\ GetKeyState(input', "Unknown") = call'.is_down
                  /\ (/\ call.op = "set_key_state" /\ call.is_down
                      /\ ~Recognized(call.label) /\ ~call'.is_down)
                        => (Pressed("Unknown") /\ ~GetKeyState(input', "Unknown"))]_vars

\* The empty label pressed the Unknown key while another key is held.
C11_Witness ==
    /\ call.op = "set_key_state"
    /\ call.label = <<>>
    /\ call.is_down
    /\ call.key = "Unknown"
    /\ Pressed("Unknown")
    /\ Pressed("D")

(***************************************************************************)
(* Properties: the Player's flags (under SpecGame)                         *)
(***************************************************************************)
\* C12: in every state reached from Player::default() by handle_input, with
\* any of A, D and Space held, and update, is_jumping and is_backward are
\* false and the state is Idle, so IdleLeft, Jumping and JumpingLeft are
\* never reached; get_sprite returns the Idle region.
C12_FlagsNeverChange ==
    /\ ~player.is_jumping
    /\ ~player.is_backward
    /\ player.state = "Idle"
    /\ player.state \notin {"IdleLeft", "Jumping", "JumpingLeft"}
    /\ GetSprite(player) = Returned(IdleSprite)
    /\ call.op = "get_sprite" => sprite_ret = Returned(IdleSprite)

\* get_sprite was called on a player that has moved left, with A and Space
\* held.
C12_Witness ==
    /\ call.op = "get_sprite"
    /\ Pressed("A") /\ Pressed("Space") /\ ~Pressed("D")
    /\ player.position[1] < 0
    /\ player.state = "Idle"
    /\ sprite_ret = Returned(IdleSprite)

====
